---- MODULE Spec2Model ----
(***************************************************************************)
(* Motion Director plugin (accorsi/motion-director): the plugin-side code  *)
(* that draws camera-path lines and control-point markers on the canvas,   *)
(* reads a marker back, and stores named project data.                     *)
(*                                                                         *)
(* The canvas is figma.currentPage.children, an ordered list of nodes that *)
(* the code addresses by name.  Names are real strings, built and matched  *)
(* as the template literals, === and startsWith of the source do.          *)
(*                                                                         *)
(* JavaScript values that can be null, undefined or a number are tagged    *)
(* tuples: <<"undefined">>, <<"null">>, <<"number", n>>, <<"point", x, y>>.*)
(***************************************************************************)
EXTENDS Integers, Sequences, FiniteSets, TLC

VARIABLES
    children,   \* figma.currentPage.children: the top-level nodes, in order
    posted,     \* the messages the last step sent with figma.ui.postMessage
    lastStep,   \* history: the step taken last (a message, a call, a drag)
                \* and the names of the nodes it removed
    pluginData, \* figma.root's plugin data: key -> stored string, "" if unset
    lastSet,    \* history: key -> the data of the latest set-project for it
    viewport,   \* figma.viewport: its center (x, y) and its zoom
    uiSize,     \* the size of the plugin's UI panel
    arcInput,   \* the endpoints given to calculateArcControlPoint, <<>> if none
    arcOutput   \* what calculateArcControlPoint returned for them, <<>> if not run

vars == <<children, posted, lastStep, pluginData, lastSet,
          viewport, uiSize, arcInput, arcOutput>>

----------------------------------------------------------------------------
(* Bounds and input domains *)

\* The canvas holds at most this many plugin-made nodes.
MaxNodes == 4

\* The scene indices messages carry; 1 and 10 share a decimal prefix.
SceneIndices == {0, 1, 10}

Undefined == <<"undefined">>
Null == <<"null">>
Number(n) == <<"number", n>>
Point(x, y) == <<"point", x, y>>

\* What msg.sceneIndex / pathData.sceneIndex can be: absent, null or a number.
SceneIndexValues == {Undefined, Null} \cup {Number(n) : n \in SceneIndices}

\* Control points passed to draw, and positions a marker can be dragged to.
Points == {Point(10, 20), Point(30, 40)}

PathSpecs ==
    [control : Points, isArcEnabled : BOOLEAN, sceneIndex : SceneIndexValues]

\* The project names set-project and get-project carry.
ProjectNames == {"default", "demo"}

\* Project data: JSON values, tagged like the other JavaScript values, an
\* array as <<"array", elements>> and an object as <<"object", members>>
\* with members a sequence of <<key, value>>.  The falsy values are there.
ProjectData ==
    { Null,
      <<"number", 0>>,
      <<"string", "">>,
      <<"boolean", FALSE>>,
      <<"object",
        << <<"scenes", <<"array",
              << <<"object", << <<"x", <<"number", -12>> >>,
                                <<"zoom", <<"number", 2>> >> >> >>,
                 Null >> >> >>,
           <<"arc", <<"boolean", TRUE>> >> >> >> }

\* What a correlation field of capture-scene can be: absent or a number.
CorrelationValues == {Undefined, Number(1)}

\* The viewports update-viewport asks for, and the panel sizes of resize.
Viewports == {[x |-> 0, y |-> 0, zoom |-> 1], [x |-> 100, y |-> 50, zoom |-> 2]}
PanelSizes == {[width |-> 354, height |-> 60], [width |-> 354, height |-> 600]}

\* With every message type at once: the canvas holds at most this many
\* nodes and the store at most this many projects.
MaxMessageNodes == 2
MaxMessageProjects == 1

\* The coordinates of the endpoints given to calculateArcControlPoint.
Coordinates == {-80, 0, 7, 50, 60, 100, 200}

----------------------------------------------------------------------------
(* Configuration *)

CONTROL_POINT_NAME == "MotionDirector_CP_Marker"
PATH_LINE_NAME == "MotionDirector_Path_Line"

----------------------------------------------------------------------------
(* Strings *)

\* `${v}` in a template literal.
TemplateString(v) ==
    IF v = Null THEN "null"
    ELSE IF v = Undefined THEN "undefined"
    ELSE ToString(v[2])

\* String.prototype.startsWith
startsWith(s, prefix) ==
    /\ Len(s) >= Len(prefix)
    /\ SubSeq(s, 1, Len(prefix)) = prefix

\* A parameter declared `sceneIndex = null`: undefined becomes null.
DefaultNull(v) == IF v = Undefined THEN Null ELSE v

\* `${BASE}_${sceneIndex}`
ScopedName(base, sceneIndex) == base \o "_" \o TemplateString(sceneIndex)

----------------------------------------------------------------------------
(* Canvas helpers *)

\* Array.prototype.filter over a sequence, by a set of kept positions.
RECURSIVE KeepAt(_, _, _)
KeepAt(seq, keep, i) ==
    IF i > Len(seq) THEN <<>>
    ELSE (IF i \in keep THEN <<seq[i]>> ELSE <<>>) \o KeepAt(seq, keep, i + 1)

\* node.remove() for every node at a position in `gone`.
RemoveAt(seq, gone) == KeepAt(seq, (1 .. Len(seq)) \ gone, 1)

\* figma.createVector(): a new VECTOR node, parented under the current page.
VectorNode(name, x, y, locked) ==
    [name |-> name, type |-> "VECTOR", x |-> x, y |-> y,
     locked |-> locked, selected |-> TRUE]

\* figma.currentPage.selection = nodes: every other node is deselected.
Deselect(seq) == [i \in 1 .. Len(seq) |-> [seq[i] EXCEPT !.selected = FALSE]]

----------------------------------------------------------------------------
(* Path visualization logic *)

\* Mutant: the scene's names are matched as prefixes, not exactly.
ClearMatches_Prefix(seq, sceneIndex) ==
    IF sceneIndex # Null
    THEN {i \in 1 .. Len(seq) :
            /\ \/ startsWith(seq[i].name, ScopedName(PATH_LINE_NAME, sceneIndex))
               \/ startsWith(seq[i].name, ScopedName(CONTROL_POINT_NAME, sceneIndex))
            /\ seq[i].type = "VECTOR"}
    ELSE {i \in 1 .. Len(seq) :
            /\ \/ startsWith(seq[i].name, PATH_LINE_NAME)
               \/ startsWith(seq[i].name, CONTROL_POINT_NAME)
            /\ seq[i].type = "VECTOR"}

\* Mutant: the clear-all branch matches the bare base names exactly.
ClearMatches_ExactBase(seq, sceneIndex) ==
    IF sceneIndex # Null
    THEN {i \in 1 .. Len(seq) :
            /\ \/ seq[i].name = ScopedName(PATH_LINE_NAME, sceneIndex)
               \/ seq[i].name = ScopedName(CONTROL_POINT_NAME, sceneIndex)
            /\ seq[i].type = "VECTOR"}
    ELSE {i \in 1 .. Len(seq) :
            /\ \/ seq[i].name = PATH_LINE_NAME
               \/ seq[i].name = CONTROL_POINT_NAME
            /\ seq[i].type = "VECTOR"}

\* Mutant: the names are matched whatever the node's type.
ClearMatches_AnyType(seq, sceneIndex) ==
    IF sceneIndex # Null
    THEN {i \in 1 .. Len(seq) :
            \/ seq[i].name = ScopedName(PATH_LINE_NAME, sceneIndex)
            \/ seq[i].name = ScopedName(CONTROL_POINT_NAME, sceneIndex)}
    ELSE {i \in 1 .. Len(seq) :
            \/ startsWith(seq[i].name, PATH_LINE_NAME)
            \/ startsWith(seq[i].name, CONTROL_POINT_NAME)}

\* Mutant: the scene index is tested for truthiness, so 0 clears everything.
ClearMatches_Falsy(seq, sceneIndex) ==
    IF sceneIndex \notin {Null, Number(0)}
    THEN {i \in 1 .. Len(seq) :
            /\ \/ seq[i].name = ScopedName(PATH_LINE_NAME, sceneIndex)
               \/ seq[i].name = ScopedName(CONTROL_POINT_NAME, sceneIndex)
            /\ seq[i].type = "VECTOR"}
    ELSE {i \in 1 .. Len(seq) :
            /\ \/ startsWith(seq[i].name, PATH_LINE_NAME)
               \/ startsWith(seq[i].name, CONTROL_POINT_NAME)
            /\ seq[i].type = "VECTOR"}

\* The positions clearExistingPaths(sceneIndex) removes.
ClearMatches(seq, sceneIndex) ==
    IF sceneIndex # Null
    THEN {i \in 1 .. Len(seq) :
            /\ \/ seq[i].name = ScopedName(PATH_LINE_NAME, sceneIndex)
               \/ seq[i].name = ScopedName(CONTROL_POINT_NAME, sceneIndex)
            /\ seq[i].type = "VECTOR"}
    ELSE {i \in 1 .. Len(seq) :
            /\ \/ startsWith(seq[i].name, PATH_LINE_NAME)
               \/ startsWith(seq[i].name, CONTROL_POINT_NAME)
            /\ seq[i].type = "VECTOR"}

\* clearExistingPaths(sceneIndex = null): the canvas it leaves.
clearExistingPaths(seq, sceneIndex) ==
    RemoveAt(seq, ClearMatches(seq, DefaultNull(sceneIndex)))

\* Mutant: drawPath never clears before it creates.
DrawCleared_NoClear(seq, sceneIndex) == seq

\* Mutant: drawPath with a sceneIndex clears the paths of every scope.
DrawCleared_ClearAll(seq, sceneIndex) ==
    IF sceneIndex # Undefined THEN clearExistingPaths(seq, Null) ELSE seq

\* The canvas drawPath starts creating on: this scene's objects are cleared
\* only if pathData carries a sceneIndex.
DrawCleared(seq, sceneIndex) ==
    IF sceneIndex # Undefined THEN clearExistingPaths(seq, sceneIndex) ELSE seq

\* The name drawPath gives a created node.
DrawName(base, sceneIndex) ==
    IF sceneIndex # Undefined THEN ScopedName(base, sceneIndex) ELSE base

\* The nodes drawPath creates, in creation order: the path line, then the
\* control-point marker placed at control (only if the arc is enabled).
DrawCreated(pathData) ==
    <<VectorNode(DrawName(PATH_LINE_NAME, pathData.sceneIndex), 0, 0, TRUE)>>
    \o (IF pathData.isArcEnabled
        THEN <<VectorNode(DrawName(CONTROL_POINT_NAME, pathData.sceneIndex),
                          pathData.control[2], pathData.control[3], FALSE)>>
        ELSE <<>>)

\* drawPath(pathData): the canvas it leaves, the created nodes selected.
drawPath(seq, pathData) ==
    Deselect(DrawCleared(seq, pathData.sceneIndex)) \o DrawCreated(pathData)

\* figma.currentPage.findChild(pred): the first matching position, 0 if none.
FindMarker(seq, cpName) ==
    LET hits == {i \in 1 .. Len(seq) :
                    seq[i].name = cpName /\ seq[i].type = "VECTOR"}
    IN  IF hits = {} THEN 0 ELSE CHOOSE i \in hits : \A j \in hits : i <= j

\* getCustomControlPoint(sceneIndex = null)
getCustomControlPoint(seq, sceneIndex) ==
    LET cpName == IF DefaultNull(sceneIndex) # Null
                  THEN ScopedName(CONTROL_POINT_NAME, DefaultNull(sceneIndex))
                  ELSE CONTROL_POINT_NAME
        at == FindMarker(seq, cpName)
    IN  IF at # 0 THEN Point(seq[at].x, seq[at].y) ELSE Null

----------------------------------------------------------------------------
(* Exact arithmetic: rationals <<numerator, denominator>> in lowest terms, *)
(* and square roots kept as coef * sqrt(rad).                              *)

Abs(n) == IF n < 0 THEN 0 - n ELSE n

RECURSIVE Gcd(_, _)
Gcd(a, b) == IF b = 0 THEN a ELSE Gcd(b, a % b)

Rat(n, d) ==
    LET g == Gcd(Abs(n), Abs(d))
        sign == IF d < 0 THEN -1 ELSE 1
    IN  <<sign * (n \div g), sign * (d \div g)>>

RatAdd(a, b) == Rat(a[1] * b[2] + b[1] * a[2], a[2] * b[2])
RatSub(a, b) == Rat(a[1] * b[2] - b[1] * a[2], a[2] * b[2])
RatMul(a, b) == Rat(a[1] * b[1], a[2] * b[2])
RatDiv(a, b) == Rat(a[1] * b[2], a[2] * b[1])

\* Math.sqrt(n)
MathSqrt(n) == [coef |-> Rat(1, 1), rad |-> n]

\* root * r, for a rational r
RootTimes(root, r) == [coef |-> RatMul(root.coef, r), rad |-> root.rad]

\* a / b for two multiples of the same non-zero square root
RootOver(a, b) == RatDiv(a.coef, b.coef)

\* root < k, for a non-negative root and a natural number k
RootLess(root, k) ==
    root.coef[1] * root.coef[1] * root.rad < k * k * root.coef[2] * root.coef[2]

\* Mutant of RootLess: root <= k
RootLessOrEqual(root, k) ==
    root.coef[1] * root.coef[1] * root.rad <= k * k * root.coef[2] * root.coef[2]

----------------------------------------------------------------------------
(* Core math functions *)

MID_ARC_FACTOR == Rat(5, 100)

\* Mutant: the short-segment test is distance <= 100.
calculateArcControlPoint_AtMost(start, end) ==
    LET dx == end[2] - start[2]
        dy == end[3] - start[3]
        distance == MathSqrt(dx * dx + dy * dy)
        mx == RatDiv(Rat(start[2] + end[2], 1), Rat(2, 1))
        my == RatDiv(Rat(start[3] + end[3], 1), Rat(2, 1))
    IN  IF RootLessOrEqual(distance, 100) THEN [xc |-> mx, yc |-> my]
        ELSE LET nx == Rat(0 - dy, 1)
                 ny == Rat(dx, 1)
                 scale == RootOver(RootTimes(distance, MID_ARC_FACTOR), distance)
             IN  [xc |-> RatAdd(mx, RatMul(nx, scale)),
                  yc |-> RatAdd(my, RatMul(ny, scale))]

\* calculateArcControlPoint(start, end)
calculateArcControlPoint(start, end) ==
    LET dx == end[2] - start[2]
        dy == end[3] - start[3]
        distance == MathSqrt(dx * dx + dy * dy)
    IN  IF RootLess(distance, 100)
        THEN [xc |-> RatDiv(Rat(start[2] + end[2], 1), Rat(2, 1)),
              yc |-> RatDiv(Rat(start[3] + end[3], 1), Rat(2, 1))]
        ELSE LET mx == RatDiv(Rat(start[2] + end[2], 1), Rat(2, 1))
                 my == RatDiv(Rat(start[3] + end[3], 1), Rat(2, 1))
                 nx == Rat(0 - dy, 1)
                 ny == Rat(dx, 1)
                 scale == RootOver(RootTimes(distance, MID_ARC_FACTOR), distance)
             IN  [xc |-> RatAdd(mx, RatMul(nx, scale)),
                  yc |-> RatAdd(my, RatMul(ny, scale))]

----------------------------------------------------------------------------
(* JSON *)

Char(s, i) == SubSeq(s, i, i)
Quote == "\""
IsDigit(c) == \E d \in 0 .. 9 : ToString(d) = c
DigitValue(c) == CHOOSE d \in 0 .. 9 : ToString(d) = c

\* JSON.stringify(value)
RECURSIVE JSONstringify(_), StringifyElements(_, _), StringifyMembers(_, _)
JSONstringify(v) ==
    CASE v[1] = "null" -> "null"
      [] v[1] = "boolean" -> (IF v[2] THEN "true" ELSE "false")
      [] v[1] = "number" -> ToString(v[2])
      [] v[1] = "string" -> Quote \o v[2] \o Quote
      [] v[1] = "array" -> "[" \o StringifyElements(v[2], 1) \o "]"
      [] v[1] = "object" -> "{" \o StringifyMembers(v[2], 1) \o "}"
StringifyElements(elems, i) ==
    IF i > Len(elems) THEN ""
    ELSE (IF i > 1 THEN "," ELSE "") \o JSONstringify(elems[i])
         \o StringifyElements(elems, i + 1)
StringifyMembers(members, i) ==
    IF i > Len(members) THEN ""
    ELSE (IF i > 1 THEN "," ELSE "")
         \o Quote \o members[i][1] \o Quote \o ":"
         \o JSONstringify(members[i][2])
         \o StringifyMembers(members, i + 1)

\* The end of a run of digits that starts at i, and the number it spells.
RECURSIVE DigitsEnd(_, _), DigitsValue(_, _, _, _)
DigitsEnd(s, i) ==
    IF i <= Len(s) /\ IsDigit(Char(s, i)) THEN DigitsEnd(s, i + 1) ELSE i
DigitsValue(s, i, end, acc) ==
    IF i >= end THEN acc
    ELSE DigitsValue(s, i + 1, end, 10 * acc + DigitValue(Char(s, i)))

\* The position of the next double quote at or after i.
RECURSIVE QuoteAt(_, _)
QuoteAt(s, i) == IF Char(s, i) = Quote THEN i ELSE QuoteAt(s, i + 1)

\* JSON.parse(text), by recursive descent: <<value, position after it>>.
RECURSIVE ParseValue(_, _), ParseElements(_, _, _), ParseMembers(_, _, _)
ParseValue(s, i) ==
    LET c == Char(s, i) IN
    CASE c = "n" -> <<Null, i + 4>>
      [] c = "t" -> << <<"boolean", TRUE>>, i + 4 >>
      [] c = "f" -> << <<"boolean", FALSE>>, i + 5 >>
      [] c = Quote ->
            << <<"string", SubSeq(s, i + 1, QuoteAt(s, i + 1) - 1)>>,
               QuoteAt(s, i + 1) + 1 >>
      [] c = "[" ->
            LET r == ParseElements(s, i + 1, <<>>)
            IN  << <<"array", r[1]>>, r[2] >>
      [] c = "{" ->
            LET r == ParseMembers(s, i + 1, <<>>)
            IN  << <<"object", r[1]>>, r[2] >>
      [] c = "-" ->
            << <<"number", 0 - DigitsValue(s, i + 1, DigitsEnd(s, i + 1), 0)>>,
               DigitsEnd(s, i + 1) >>
      [] OTHER ->
            << <<"number", DigitsValue(s, i, DigitsEnd(s, i), 0)>>,
               DigitsEnd(s, i) >>
ParseElements(s, i, acc) ==
    IF Char(s, i) = "]" THEN <<acc, i + 1>>
    ELSE IF Char(s, i) = "," THEN ParseElements(s, i + 1, acc)
    ELSE LET r == ParseValue(s, i)
         IN  ParseElements(s, r[2], Append(acc, r[1]))
ParseMembers(s, i, acc) ==
    IF Char(s, i) = "}" THEN <<acc, i + 1>>
    ELSE IF Char(s, i) = "," THEN ParseMembers(s, i + 1, acc)
    ELSE LET k == ParseValue(s, i)
             v == ParseValue(s, k[2] + 1)
         IN  ParseMembers(s, v[2], Append(acc, <<k[1][2], v[1]>>))

JSONparse(s) == ParseValue(s, 1)[1]

----------------------------------------------------------------------------
(* Persistence helpers *)

\* A JavaScript value as a condition: false for "", 0, false and null.
Truthy(v) ==
    CASE v = Null -> FALSE
      [] v[1] = "boolean" -> v[2]
      [] v[1] = "number" -> v[2] # 0
      [] v[1] = "string" -> v[2] # ""
      [] OTHER -> TRUE

\* Mutant: the parsed value, not the stored string, decides on null.
getStoredData_ParsedTruthy(store, key) ==
    IF store[key] # "" /\ Truthy(JSONparse(store[key]))
    THEN JSONparse(store[key]) ELSE Null

\* getStoredData(key): the stored string parsed, null if it is empty.
getStoredData(store, key) ==
    LET data == store[key]
    IN  IF data # "" THEN JSONparse(data) ELSE Null

\* setStoredData(key, data): the store it leaves.
setStoredData(store, key, data) ==
    [store EXCEPT ![key] = JSONstringify(data)]

----------------------------------------------------------------------------
(* Steps *)

\* The canvas bound: a step may leave at most MaxNodes nodes.
Fits(seq) == Len(seq) <= MaxNodes

\* History only: the names of the nodes a clearExistingPaths call removes.
RemovedNames(seq, sceneIndex) ==
    {seq[i].name : i \in ClearMatches(seq, DefaultNull(sceneIndex))}

\* A node of the page the plugin did not create: the user's own, locked.
UserNode(name, type, x, y) ==
    [name |-> name, type |-> type, x |-> x, y |-> y, locked |-> TRUE,
     selected |-> FALSE]

\* The user's nodes: a vector with a name of its own, and nodes of other
\* types that carry a marker's or a path line's name.
UserNodes ==
    <<UserNode("Logo", "VECTOR", 70, 80),
      UserNode("MotionDirector_CP_Marker_1", "TEXT", 71, 81),
      UserNode("MotionDirector_CP_Marker", "TEXT", 72, 82),
      UserNode("MotionDirector_Path_Line", "FRAME", 73, 83)>>

\* figma.currentPage.children before the plugin has drawn: two user nodes.
UserCanvases ==
    {<<UserNodes[at[1]], UserNodes[at[2]]>> :
        at \in {pair \in (DOMAIN UserNodes) \X (DOMAIN UserNodes) :
                    pair[1] < pair[2]}}

\* figma.ui.onmessage, msg.type === 'draw-path'
DrawPathMessage(pathData) ==
    LET after == IF ~pathData.isArcEnabled
                 THEN clearExistingPaths(children, Undefined)
                 ELSE drawPath(children, pathData)
        removed == IF ~pathData.isArcEnabled
                   THEN RemovedNames(children, Undefined)
                   ELSE IF pathData.sceneIndex # Undefined
                        THEN RemovedNames(children, pathData.sceneIndex)
                        ELSE {}
    IN  /\ Fits(after)
        /\ children' = after
        /\ posted' = <<>>
        /\ lastStep' = [type |-> "draw-path", pathData |-> pathData,
                        removed |-> removed]
        /\ UNCHANGED <<pluginData, lastSet, viewport, uiSize, arcInput, arcOutput>>

\* figma.ui.onmessage, msg.type === 'hide-paths'
HidePathsMessage ==
    /\ children' = clearExistingPaths(children, Undefined)
    /\ posted' = <<>>
    /\ lastStep' = [type |-> "hide-paths",
                    removed |-> RemovedNames(children, Undefined)]
    /\ UNCHANGED <<pluginData, lastSet, viewport, uiSize, arcInput, arcOutput>>

\* figma.ui.onmessage, msg.type === 'hide-path'
HidePathMessage(sceneIndex) ==
    /\ children' = clearExistingPaths(children, sceneIndex)
    /\ posted' = <<>>
    /\ lastStep' = [type |-> "hide-path", sceneIndex |-> sceneIndex,
                    removed |-> RemovedNames(children, sceneIndex)]
    /\ UNCHANGED <<pluginData, lastSet, viewport, uiSize, arcInput, arcOutput>>

\* figma.ui.onmessage, msg.type === 'delete-scene-path'
DeleteScenePathMessage(sceneIndex) ==
    /\ children' = clearExistingPaths(children, sceneIndex)
    /\ posted' = <<>>
    /\ lastStep' = [type |-> "delete-scene-path", sceneIndex |-> sceneIndex,
                    removed |-> RemovedNames(children, sceneIndex)]
    /\ UNCHANGED <<pluginData, lastSet, viewport, uiSize, arcInput, arcOutput>>

\* figma.ui.onmessage, msg.type === 'get-control-point'
GetControlPointMessage(sceneIndex) ==
    /\ posted' = <<[type |-> "control-point-updated",
                    point |-> getCustomControlPoint(children, sceneIndex),
                    sceneIndex |-> sceneIndex]>>
    /\ UNCHANGED children
    /\ lastStep' = [type |-> "get-control-point", sceneIndex |-> sceneIndex]
    /\ UNCHANGED <<pluginData, lastSet, viewport, uiSize, arcInput, arcOutput>>

\* drawPath(pathData) called as the registry's draw operation, with any
\* PathSpec (the draw-path handler only passes arc-enabled ones).
DrawPathCall(pathData) ==
    /\ Fits(drawPath(children, pathData))
    /\ children' = drawPath(children, pathData)
    /\ posted' = <<>>
    /\ lastStep' = [type |-> "draw", pathData |-> pathData,
                    removed |-> IF pathData.sceneIndex # Undefined
                                THEN RemovedNames(children, pathData.sceneIndex)
                                ELSE {}]
    /\ UNCHANGED <<pluginData, lastSet, viewport, uiSize, arcInput, arcOutput>>

\* The user drags an unlocked node (a control-point marker) on the canvas.
MarkerDrag(i, p) ==
    /\ i \in 1 .. Len(children)
    /\ ~children[i].locked
    /\ Point(children[i].x, children[i].y) # p
    /\ children' = [children EXCEPT ![i].x = p[2], ![i].y = p[3]]
    /\ posted' = <<>>
    /\ lastStep' = [type |-> "marker-drag", name |-> children[i].name,
                    at |-> i, to |-> p]
    /\ UNCHANGED <<pluginData, lastSet, viewport, uiSize, arcInput, arcOutput>>

\* figma.ui.onmessage, msg.type === 'set-project'
SetProjectMessage(name, data) ==
    /\ pluginData' = setStoredData(pluginData, name, data)
    /\ lastSet' = [lastSet EXCEPT ![name] = data]
    /\ posted' = <<>>
    /\ lastStep' = [type |-> "set-project", name |-> name, data |-> data]
    /\ UNCHANGED <<children, viewport, uiSize, arcInput, arcOutput>>

\* figma.ui.onmessage, msg.type === 'get-project'
GetProjectMessage(name) ==
    /\ posted' = <<[type |-> "load-data",
                    data |-> getStoredData(pluginData, name),
                    projectName |-> name]>>
    /\ lastStep' = [type |-> "get-project", name |-> name]
    /\ UNCHANGED <<children, pluginData, lastSet>>
    /\ UNCHANGED <<viewport, uiSize, arcInput, arcOutput>>

Init ==
    /\ children = <<>>
    /\ posted = <<>>
    /\ lastStep = [type |-> "init"]
    /\ pluginData = [name \in ProjectNames |-> ""]
    /\ lastSet = [name \in ProjectNames |-> Undefined]
    /\ viewport = [x |-> 0, y |-> 0, zoom |-> 1]
    /\ uiSize = [width |-> 354, height |-> 60]
    /\ arcInput = <<>>
    /\ arcOutput = <<>>

Next ==
    \/ \E pathData \in PathSpecs : DrawPathMessage(pathData)
    \/ HidePathsMessage
    \/ \E sceneIndex \in SceneIndexValues : HidePathMessage(sceneIndex)
    \/ \E sceneIndex \in SceneIndexValues : DeleteScenePathMessage(sceneIndex)
    \/ \E sceneIndex \in SceneIndexValues : GetControlPointMessage(sceneIndex)
    \/ \E pathData \in PathSpecs : DrawPathCall(pathData)
    \/ \E i \in 1 .. MaxNodes, p \in Points : MarkerDrag(i, p)

\* The path registry: the messages and steps that touch the canvas.
Spec == Init /\ [][Next]_vars

\* The plugin opened on a page that holds the user's nodes.
InitCanvas ==
    /\ children \in UserCanvases
    /\ posted = <<>>
    /\ lastStep = [type |-> "init"]
    /\ pluginData = [name \in ProjectNames |-> ""]
    /\ lastSet = [name \in ProjectNames |-> Undefined]
    /\ viewport = [x |-> 0, y |-> 0, zoom |-> 1]
    /\ uiSize = [width |-> 354, height |-> 60]
    /\ arcInput = <<>>
    /\ arcOutput = <<>>

\* The path registry on a page that is not empty.
SpecCanvas == InitCanvas /\ [][Next]_vars

\* The project store: the messages that touch figma.root's plugin data.
NextStore ==
    \/ \E name \in ProjectNames, data \in ProjectData :
          SetProjectMessage(name, data)
    \/ \E name \in ProjectNames : GetProjectMessage(name)

SpecStore == Init /\ [][NextStore]_vars

\* Mutant: capture-scene answers without the request's correlation fields.
CaptureSceneMessage_NoEcho(targetScene, pathSettingsIndex, updateIndex) ==
    /\ posted' = <<[type |-> "scene-captured",
                    view |-> [x |-> viewport.x, y |-> viewport.y,
                              zoom |-> viewport.zoom],
                    targetScene |-> Undefined,
                    pathSettingsIndex |-> Undefined,
                    updateIndex |-> Undefined]>>
    /\ lastStep' = [type |-> "capture-scene", targetScene |-> targetScene,
                    pathSettingsIndex |-> pathSettingsIndex,
                    updateIndex |-> updateIndex]
    /\ UNCHANGED <<children, pluginData, lastSet, viewport, uiSize,
                   arcInput, arcOutput>>

\* figma.ui.onmessage, msg.type === 'capture-scene'
CaptureSceneMessage(targetScene, pathSettingsIndex, updateIndex) ==
    /\ posted' = <<[type |-> "scene-captured",
                    view |-> [x |-> viewport.x, y |-> viewport.y,
                              zoom |-> viewport.zoom],
                    targetScene |-> targetScene,
                    pathSettingsIndex |-> pathSettingsIndex,
                    updateIndex |-> updateIndex]>>
    /\ lastStep' = [type |-> "capture-scene", targetScene |-> targetScene,
                    pathSettingsIndex |-> pathSettingsIndex,
                    updateIndex |-> updateIndex]
    /\ UNCHANGED <<children, pluginData, lastSet, viewport, uiSize,
                   arcInput, arcOutput>>

\* figma.ui.onmessage, msg.type === 'update-viewport'
UpdateViewportMessage(view) ==
    /\ viewport' = [x |-> view.x, y |-> view.y, zoom |-> view.zoom]
    /\ posted' = <<>>
    /\ lastStep' = [type |-> "update-viewport", x |-> view.x, y |-> view.y,
                    zoom |-> view.zoom]
    /\ UNCHANGED <<children, pluginData, lastSet, uiSize, arcInput, arcOutput>>

\* figma.ui.onmessage, msg.type === 'resize'
ResizeMessage(size) ==
    /\ uiSize' = [width |-> size.width, height |-> size.height]
    /\ posted' = <<>>
    /\ lastStep' = [type |-> "resize", width |-> size.width,
                    height |-> size.height]
    /\ UNCHANGED <<children, pluginData, lastSet, viewport, arcInput, arcOutput>>

\* The bounds on a run that takes every message type.
WithinMessageBounds ==
    /\ Len(children) <= MaxMessageNodes
    /\ Cardinality({name \in ProjectNames : pluginData[name] # ""})
         <= MaxMessageProjects

\* figma.ui.onmessage: every message type, and the user's drags.
NextMessages ==
    \/ \E targetScene \in CorrelationValues,
          pathSettingsIndex \in CorrelationValues,
          updateIndex \in CorrelationValues :
          CaptureSceneMessage(targetScene, pathSettingsIndex, updateIndex)
    \/ \E view \in Viewports : UpdateViewportMessage(view)
    \/ \E size \in PanelSizes : ResizeMessage(size)
    \/ \E name \in ProjectNames, data \in ProjectData :
          SetProjectMessage(name, data) /\ WithinMessageBounds'
    \/ \E name \in ProjectNames : GetProjectMessage(name)
    \/ \E pathData \in PathSpecs :
          DrawPathMessage(pathData) /\ WithinMessageBounds'
    \/ HidePathsMessage
    \/ \E sceneIndex \in SceneIndexValues : HidePathMessage(sceneIndex)
    \/ \E sceneIndex \in SceneIndexValues : DeleteScenePathMessage(sceneIndex)
    \/ \E sceneIndex \in SceneIndexValues : GetControlPointMessage(sceneIndex)
    \/ \E i \in 1 .. MaxMessageNodes, p \in Points : MarkerDrag(i, p)

SpecMessages == Init /\ [][NextMessages]_vars

\* The geometry engine: calculateArcControlPoint applied to two endpoints.
CalculateArcControlPointCall ==
    /\ arcOutput = <<>>
    /\ arcOutput' = calculateArcControlPoint(arcInput.start, arcInput.end)
    /\ UNCHANGED <<children, posted, lastStep, pluginData, lastSet,
                   viewport, uiSize, arcInput>>

InitArc ==
    /\ children = <<>>
    /\ posted = <<>>
    /\ lastStep = [type |-> "init"]
    /\ pluginData = [name \in ProjectNames |-> ""]
    /\ lastSet = [name \in ProjectNames |-> Undefined]
    /\ viewport = [x |-> 0, y |-> 0, zoom |-> 1]
    /\ uiSize = [width |-> 354, height |-> 60]
    /\ arcInput \in [start : {Point(x, y) : x, y \in Coordinates},
                      end : {Point(x, y) : x, y \in Coordinates}]
    /\ arcOutput = <<>>

NextArc == CalculateArcControlPointCall

SpecArc == InitArc /\ [][NextArc]_vars

----------------------------------------------------------------------------
(* Vocabulary of the properties *)

\* The naming scheme: base name, then "_" and the scene index in decimal.
LineNameFor(n) == "MotionDirector_Path_Line" \o "_" \o ToString(n)
MarkerNameFor(n) == "MotionDirector_CP_Marker" \o "_" \o ToString(n)

\* The positions of the nodes that carry a name.
Named(seq, name) == {i \in 1 .. Len(seq) : seq[i].name = name}
Count(seq, name) == Cardinality(Named(seq, name))

\* A step that ran drawPath.
IsDraw(step) ==
    \/ step.type = "draw"
    \/ step.type = "draw-path" /\ step.pathData.isArcEnabled

IsDrawFor(step, sceneIndex) ==
    IsDraw(step) /\ step.pathData.sceneIndex = sceneIndex

\* The scopes of the registry: each scene index, or none (unscoped).
Scopes == {Undefined} \cup {Number(n) : n \in SceneIndices}

\* The name of a scope's control marker and of its path line.
MarkerNameOf(scope) ==
    IF scope = Undefined THEN "MotionDirector_CP_Marker"
    ELSE MarkerNameFor(scope[2])
LineNameOf(scope) ==
    IF scope = Undefined THEN "MotionDirector_Path_Line"
    ELSE LineNameFor(scope[2])

\* A get-control-point step for a scope, and the point it responded with.
IsGetFor(step, scope) ==
    step.type = "get-control-point" /\ step.sceneIndex = scope

----------------------------------------------------------------------------
(* C1 *)

\* C1: in every reachable state, for each scene index N the canvas holds at
\* most one path line named for N and at most one control marker named for
\* N, and right after a draw for N (also a redraw over N's existing objects)
\* exactly one path line named for N.
C1_AtMostOnePerScene ==
    \A n \in SceneIndices :
        /\ Count(children, LineNameFor(n)) <= 1
        /\ Count(children, MarkerNameFor(n)) <= 1
        /\ IsDrawFor(lastStep, Number(n)) => Count(children, LineNameFor(n)) = 1

\* A draw for scene 1 that found and removed scene 1's earlier path line and
\* marker, and left one of each.
C1_Witness ==
    /\ IsDrawFor(lastStep, Number(1))
    /\ lastStep.removed = {LineNameFor(1), MarkerNameFor(1)}
    /\ Count(children, LineNameFor(1)) = 1
    /\ Count(children, MarkerNameFor(1)) = 1

----------------------------------------------------------------------------
(* C2 *)

\* C2: draw removes the existing objects of its key before creating new
\* ones also when sceneIndex is absent: right after a draw without a
\* sceneIndex the canvas holds exactly one path line and at most one control
\* marker with the bare base names.
C2_UnscopedDrawLeavesOne ==
    IsDrawFor(lastStep, Undefined) =>
        /\ Count(children, PATH_LINE_NAME) = 1
        /\ Count(children, CONTROL_POINT_NAME) <= 1

----------------------------------------------------------------------------
(* C3 *)

\* C3: for every scope, an arc-enabled draw followed immediately by
\* get-control-point for the same scope responds with the control point
\* passed to the draw, whatever the canvas held before the draw.
C3_DrawThenGetReturnsControl ==
    [][\A scope \in Scopes :
        (/\ IsDrawFor(lastStep, scope)
         /\ lastStep.pathData.isArcEnabled
         /\ IsGetFor(lastStep', scope))
        => posted'[1].point = lastStep.pathData.control]_vars

\* The same statement for the scene-index scopes alone.
C3_ScopedDrawThenGetReturnsControl ==
    [][\A n \in SceneIndices :
        (/\ IsDrawFor(lastStep, Number(n))
         /\ lastStep.pathData.isArcEnabled
         /\ IsGetFor(lastStep', Number(n)))
        => posted'[1].point = lastStep.pathData.control]_vars

----------------------------------------------------------------------------
(* C4 *)

\* The marker the most recent draw for a scope created: draws append, so it
\* is the last node of the canvas that carries the scope's marker name.
IsNewestMarker(seq, i, scope) ==
    /\ i \in Named(seq, MarkerNameOf(scope))
    /\ \A j \in Named(seq, MarkerNameOf(scope)) : j <= i

\* C4: if the user drags a scope's control marker (the one its latest draw
\* created) to p and get-control-point for that scope follows, the response
\* carries p, the marker's current position.
C4_DragThenGetReturnsPosition ==
    [][\A scope \in Scopes :
        (/\ lastStep.type = "marker-drag"
         /\ IsNewestMarker(children, lastStep.at, scope)
         /\ IsGetFor(lastStep', scope))
        => posted'[1].point = lastStep.to]_vars

\* The same statement for the scene-index scopes alone.
C4_ScopedDragThenGetReturnsPosition ==
    [][\A n \in SceneIndices :
        (/\ lastStep.type = "marker-drag"
         /\ IsNewestMarker(children, lastStep.at, Number(n))
         /\ IsGetFor(lastStep', Number(n)))
        => posted'[1].point = lastStep.to]_vars

----------------------------------------------------------------------------
(* C5 *)

\* C5: a draw with isArcEnabled = false creates no control marker, and a
\* get-control-point for its scope right after it responds with null,
\* whatever draws and clears came before.
C5_LineDrawThenGetReturnsNull ==
    [][\A scope \in Scopes :
        (/\ IsDrawFor(lastStep, scope)
         /\ ~lastStep.pathData.isArcEnabled
         /\ IsGetFor(lastStep', scope))
        => posted'[1].point = Null]_vars

\* The same statement for the scene-index scopes alone.
C5_ScopedLineDrawThenGetReturnsNull ==
    [][\A n \in SceneIndices :
        (/\ IsDrawFor(lastStep, Number(n))
         /\ ~lastStep.pathData.isArcEnabled
         /\ IsGetFor(lastStep', Number(n)))
        => posted'[1].point = Null]_vars

----------------------------------------------------------------------------
(* C6 *)

\* The nodes of a scope (its path line and its marker), in canvas order,
\* with their positions.
RECURSIVE ScopeNodes(_, _)
ScopeNodes(seq, scope) ==
    IF seq = <<>> THEN <<>>
    ELSE (IF Head(seq).name \in {LineNameOf(scope), MarkerNameOf(scope)}
          THEN <<Head(seq)>> ELSE <<>>) \o ScopeNodes(Tail(seq), scope)

\* A clear of one scene: the hide-path and delete-scene-path messages.
IsClearOf(step, sceneIndex) ==
    /\ step.type \in {"hide-path", "delete-scene-path"}
    /\ step.sceneIndex = sceneIndex

\* C6: a clear of scene N (hide-path, delete-scene-path) removes the path
\* line and the marker named for N and leaves every other scope's nodes,
\* those of the scenes M # N (1 and 10 included) and the unscoped ones,
\* as they were, the markers' positions included.
C6_ClearSceneRemovesOnlyThatScene ==
    [][\A n \in SceneIndices :
        IsClearOf(lastStep', Number(n)) =>
            /\ ScopeNodes(children', Number(n)) = <<>>
            /\ \A scope \in Scopes \ {Number(n)} :
                 ScopeNodes(children', scope) = ScopeNodes(children, scope)
            /\ Len(children') =
                 Len(children) - Len(ScopeNodes(children, Number(n)))]_vars

\* A clear of scene 1 that removed scene 1's line and marker while scene 10
\* held a line and a dragged marker.
C6_Witness ==
    /\ IsClearOf(lastStep, Number(1))
    /\ lastStep.removed = {LineNameFor(1), MarkerNameFor(1)}
    /\ Count(children, LineNameFor(10)) = 1
    /\ \E i \in Named(children, MarkerNameFor(10)) :
         Point(children[i].x, children[i].y) = Point(30, 40)
    /\ Len(children) = 2

----------------------------------------------------------------------------
(* C7 *)

\* No path line and no control marker of any scope is on the canvas.
NoPathObjects(seq) ==
    \A i \in 1 .. Len(seq) :
        /\ ~startsWith(seq[i].name, "MotionDirector_Path_Line")
        /\ ~startsWith(seq[i].name, "MotionDirector_CP_Marker")

\* C7: after hide-paths (clear with no argument) no path line and no control
\* marker remains, scene-scoped or global, and from then until the next
\* draw every get-control-point responds with null.
C7_ClearAllRemovesEverything ==
    /\ [](lastStep.type = "hide-paths" => NoPathObjects(children))
    /\ [][(NoPathObjects(children) /\ ~IsDraw(lastStep')) =>
            /\ NoPathObjects(children')
            /\ lastStep'.type = "get-control-point" =>
                 posted'[1].point = Null]_vars

\* A hide-paths that removed a global path line and a scene's line and
\* marker.
C7_Witness ==
    /\ lastStep.type = "hide-paths"
    /\ lastStep.removed =
         {"MotionDirector_Path_Line", LineNameFor(10), MarkerNameFor(10)}
    /\ children = <<>>

----------------------------------------------------------------------------
(* C8 *)

\* C8: for every key, a control marker for the key exists if and only if
\* the most recent draw for the key had isArcEnabled = true.  Stated in the
\* states right after a draw for the key, where that draw is the most
\* recent one and no clear has come since.
C8_MarkerIffLastDrawArc ==
    \A scope \in Scopes :
        IsDrawFor(lastStep, scope) =>
            (Count(children, MarkerNameOf(scope)) > 0
                <=> lastStep.pathData.isArcEnabled)

\* The same statement for the scene-index keys alone.
C8_ScopedMarkerIffLastDrawArc ==
    \A n \in SceneIndices :
        IsDrawFor(lastStep, Number(n)) =>
            (Count(children, MarkerNameFor(n)) > 0
                <=> lastStep.pathData.isArcEnabled)

----------------------------------------------------------------------------
(* C9 *)

\* C9: a draw-path message with isArcEnabled = false acts as a clear of
\* pathData.sceneIndex: for sceneIndex = N it removes scene N's line and
\* marker and leaves the nodes of every other scope as they were; with
\* isArcEnabled = true it runs draw(pathData).
C9_LineDrawPathClearsItsScope ==
    [][/\ \A n \in SceneIndices :
            (/\ lastStep'.type = "draw-path"
             /\ ~lastStep'.pathData.isArcEnabled
             /\ lastStep'.pathData.sceneIndex = Number(n))
            => /\ ScopeNodes(children', Number(n)) = <<>>
               /\ \A scope \in Scopes \ {Number(n)} :
                    ScopeNodes(children', scope) = ScopeNodes(children, scope)
       /\ (lastStep'.type = "draw-path" /\ lastStep'.pathData.isArcEnabled)
            => children' = drawPath(children, lastStep'.pathData)]_vars

----------------------------------------------------------------------------
(* C10 *)

\* C10: get-project(name) responds with a value equal to the data of the
\* most recent set-project for that name, whatever was written under other
\* names, and with null when no set-project for the name has occurred.
C10_GetProjectReturnsLastSet ==
    lastStep.type = "get-project" =>
        posted = <<[type |-> "load-data",
                    data |-> IF lastSet[lastStep.name] = Undefined
                             THEN Null ELSE lastSet[lastStep.name],
                    projectName |-> lastStep.name]>>

\* A get-project that responded with the falsy data last written under its
\* name while another name held an object.
C10_Witness ==
    /\ lastStep.type = "get-project"
    /\ lastStep.name = "demo"
    /\ lastSet["demo"] = <<"number", 0>>
    /\ posted[1].data = <<"number", 0>>
    /\ lastSet["default"] # Undefined
    /\ lastSet["default"][1] = "object"

\* A get-project for a name never written, answered with null.
C10_WitnessAbsent ==
    /\ lastStep.type = "get-project"
    /\ lastSet[lastStep.name] = Undefined
    /\ posted[1].data = Null
    /\ \E other \in ProjectNames : lastSet[other] # Undefined

----------------------------------------------------------------------------
(* C11 *)

\* C11: calculateArcControlPoint(start, end) returns exactly the midpoint
\* when dx^2 + dy^2 < 100^2, and otherwise (distance exactly 100 included)
\* the midpoint plus 0.05 * (-dy, dx): its displacement from the midpoint is
\* perpendicular to the segment and 5% of the segment's length long.
C11_ArcControlPoint ==
    arcOutput # <<>> =>
        LET sx == arcInput.start[2]
            sy == arcInput.start[3]
            ex == arcInput.end[2]
            ey == arcInput.end[3]
            dx == ex - sx
            dy == ey - sy
            offX == RatSub(arcOutput.xc, Rat(sx + ex, 2))
            offY == RatSub(arcOutput.yc, Rat(sy + ey, 2))
        IN  IF dx * dx + dy * dy < 100 * 100
            THEN arcOutput = [xc |-> Rat(sx + ex, 2), yc |-> Rat(sy + ey, 2)]
            ELSE /\ arcOutput = [xc |-> Rat(10 * (sx + ex) - dy, 20),
                                 yc |-> Rat(10 * (sy + ey) + dx, 20)]
                 /\ RatAdd(RatMul(offX, Rat(dx, 1)), RatMul(offY, Rat(dy, 1)))
                      = Rat(0, 1)
                 /\ RatAdd(RatMul(offX, offX), RatMul(offY, offY))
                      = Rat(dx * dx + dy * dy, 400)

\* The segment (0,0)-(60,-80), of length exactly 100, got the control point
\* (30 + 4, -40 + 3).
C11_Witness ==
    /\ arcInput = [start |-> Point(0, 0), end |-> Point(60, -80)]
    /\ arcOutput = [xc |-> Rat(34, 1), yc |-> Rat(-37, 1)]

\* A segment shorter than 100 with an odd coordinate sum got its midpoint.
C11_WitnessShort ==
    /\ arcInput = [start |-> Point(0, 0), end |-> Point(7, 50)]
    /\ arcOutput = [xc |-> <<7, 2>>, yc |-> <<25, 1>>]

----------------------------------------------------------------------------
(* C12 *)

\* The marker name a get-control-point request asks for.
RequestedMarkerName(sceneIndex) ==
    IF sceneIndex \in {Undefined, Null} THEN "MotionDirector_CP_Marker"
    ELSE MarkerNameFor(sceneIndex[2])

----------------------------------------------------------------------------
(* C13 *)

\* A step that is a clear, and the scene index it was given (none for the
\* no-argument form).
IsClear(step) == step.type \in {"hide-paths", "hide-path", "delete-scene-path"}
ClearKey(step) ==
    IF step.type = "hide-paths" THEN Undefined ELSE step.sceneIndex

\* The canvas holds nothing a clear with this scene index matches.
NothingToClear(seq, sceneIndex) ==
    IF sceneIndex \in {Undefined, Null} THEN NoPathObjects(seq)
    ELSE ScopeNodes(seq, sceneIndex) = <<>>

\* C13: a clear on a scope that has no matching objects (a scene never
\* drawn, an empty canvas) can always be taken and leaves the canvas as it
\* was; so a clear(k) right after a clear(k) changes nothing, for every
\* scene index k and for the no-argument form.
C13_ClearOfNothingChangesNothing ==
    /\ [](/\ ENABLED HidePathsMessage
          /\ \A sceneIndex \in SceneIndexValues :
               /\ ENABLED HidePathMessage(sceneIndex)
               /\ ENABLED DeleteScenePathMessage(sceneIndex))
    /\ [][IsClear(lastStep') =>
            /\ NothingToClear(children, ClearKey(lastStep')) =>
                 children' = children
            /\ (IsClear(lastStep) /\ ClearKey(lastStep) = ClearKey(lastStep'))
                 => children' = children]_vars

\* A clear of scene 0, never drawn, that removed nothing while scene 1 held a
\* line and a marker and scene 10 a line.
C13_Witness ==
    /\ IsClearOf(lastStep, Number(0))
    /\ lastStep.removed = {}
    /\ Count(children, LineNameFor(1)) = 1
    /\ Count(children, MarkerNameFor(1)) = 1
    /\ Count(children, LineNameFor(10)) = 1

\* A clear with no argument on the empty canvas.
C13_WitnessEmpty ==
    /\ lastStep.type = "hide-paths"
    /\ lastStep.removed = {}
    /\ children = <<>>

----------------------------------------------------------------------------
(* C14 *)

\* Where a scope's nodes are: each one's name, type, position and lock, in
\* canvas order (not whether it is selected).
ScopePlacement(seq, scope) ==
    LET nodes == ScopeNodes(seq, scope)
    IN  [i \in 1 .. Len(nodes) |->
            <<nodes[i].name, nodes[i].type, nodes[i].x, nodes[i].y,
              nodes[i].locked>>]

\* C14: a draw whose spec carries scene index N changes only scene N's
\* objects: for every other scene M the path line and the marker exist after
\* the draw exactly if they did before, the marker where it was (dragged or
\* not), and the unscoped path line and marker are untouched as well.
C14_DrawChangesOnlyItsScene ==
    [][\A n \in SceneIndices :
        IsDrawFor(lastStep', Number(n)) =>
            \A scope \in Scopes \ {Number(n)} :
                ScopePlacement(children', scope) =
                    ScopePlacement(children, scope)]_vars

\* A redraw of scene 1 that removed scene 1's earlier objects while scene 10
\* held a line and a marker dragged to (30, 40) and an unscoped line was on
\* the canvas.
C14_Witness ==
    /\ IsDrawFor(lastStep, Number(1))
    /\ lastStep.removed # {}
    /\ Count(children, LineNameFor(10)) = 1
    /\ \E i \in Named(children, MarkerNameFor(10)) :
         Point(children[i].x, children[i].y) = Point(30, 40)
    /\ Count(children, "MotionDirector_Path_Line") = 1

----------------------------------------------------------------------------
(* C15 *)

\* The canvas without the nodes the draw of a step created: drawPath appends
\* them, so they are the last nodes.
WithoutCreated(seq, step) ==
    SubSeq(seq, 1, Len(seq) - Len(DrawCreated(step.pathData)))

\* draw, clear and getControlPoint take the same scope for the key k: right
\* after an arc-enabled draw with sceneIndex k, get-control-point with k
\* responds with the marker the draw placed, and right after a draw with k a
\* clear with k removes the nodes the draw created and no others.
KeyAgreement(k) ==
    /\ (/\ IsDrawFor(lastStep, k)
        /\ lastStep.pathData.isArcEnabled
        /\ IsGetFor(lastStep', k))
       => posted'[1].point = lastStep.pathData.control
    /\ (/\ IsDrawFor(lastStep, k)
        /\ IsClear(lastStep')
        /\ lastStep'.type # "hide-paths"
        /\ ClearKey(lastStep') = k)
       => children' = WithoutCreated(children, lastStep)

\* Scene 0 and the unscoped key are kept apart: a draw for scene 0 creates
\* nodes suffixed _0, and get-control-point without a sceneIndex answers
\* from the bare-named markers only, with sceneIndex 0 from those suffixed _0.
ZeroIsScoped ==
    /\ IsDrawFor(lastStep, Number(0)) =>
         children[Len(children)].name \in {LineNameFor(0), MarkerNameFor(0)}
    /\ \A scope \in {Undefined, Number(0)} :
         IsGetFor(lastStep, scope) =>
           LET at == Named(children, MarkerNameOf(scope))
           IN  IF at = {} THEN posted[1].point = Null
               ELSE \E i \in at :
                      posted[1].point = Point(children[i].x, children[i].y)

\* C15: draw, clear and getControlPoint agree on the key of a scope for every
\* sceneIndex value a message can carry (null and every number, 0 included):
\* the nodes a draw with sceneIndex k creates are the ones clear(k) removes
\* and the marker getControlPoint(k) reads, and scene 0 is a scoped key apart
\* from the unscoped one.
C15_KeysAgree ==
    /\ [][\A k \in SceneIndexValues \ {Undefined} : KeyAgreement(k)]_vars
    /\ []ZeroIsScoped

\* The same statement for the number keys alone (0, 1, 10).
C15_NumberKeysAgree ==
    /\ [][\A n \in SceneIndices : KeyAgreement(Number(n))]_vars
    /\ []ZeroIsScoped

----------------------------------------------------------------------------
(* C16 *)

\* A node that is not a path object: it is not a VECTOR, or its name starts
\* with neither base name. The page holds no other node before the first
\* draw, and drawPath creates none, so every other node was created by a
\* draw.
Unrelated(node) ==
    \/ node.type # "VECTOR"
    \/ /\ ~startsWith(node.name, "MotionDirector_Path_Line")
       /\ ~startsWith(node.name, "MotionDirector_CP_Marker")

\* The unrelated nodes in canvas order, each with its name, type, position
\* and lock.
RECURSIVE UnrelatedPlacement(_)
UnrelatedPlacement(seq) ==
    IF seq = <<>> THEN <<>>
    ELSE (IF Unrelated(Head(seq))
          THEN <<<<Head(seq).name, Head(seq).type, Head(seq).x, Head(seq).y,
                   Head(seq).locked>>>>
          ELSE <<>>) \o UnrelatedPlacement(Tail(seq))

\* C16: with no unrelated VECTOR named from a base name on the page, no
\* sequence of messages removes, moves or renames an unrelated node: what a
\* clear or a draw removes are VECTOR nodes a draw created, and a node of
\* another type is neither removed nor read by get-control-point even when
\* its name is a marker's or a path line's.
C16_UnrelatedNodesUntouched ==
    /\ [](lastStep.type = "init" =>
            \A i \in 1 .. Len(children) : Unrelated(children[i]))
    /\ [][/\ UnrelatedPlacement(children') = UnrelatedPlacement(children)
          /\ Len(children') < Len(children) =>
               \A name \in lastStep'.removed :
                 \E i \in Named(children, name) : ~Unrelated(children[i])]_vars
    /\ [](lastStep.type = "get-control-point" =>
            \/ posted[1].point = Null
            \/ \E i \in Named(children, RequestedMarkerName(lastStep.sceneIndex)) :
                 /\ ~Unrelated(children[i])
                 /\ posted[1].point = Point(children[i].x, children[i].y))

\* A clear of scene 1 that removed the line and the marker drawn for scene 1
\* and left a TEXT node that carries the name of scene 1's marker.
C16_Witness ==
    /\ IsClearOf(lastStep, Number(1))
    /\ lastStep.removed = {LineNameFor(1), MarkerNameFor(1)}
    /\ Len(children) = 2
    /\ \E i \in Named(children, MarkerNameFor(1)) : children[i].type = "TEXT"

\* A get-control-point without sceneIndex answered null while a TEXT node
\* named as the global marker was on the page.
C16_WitnessNotRead ==
    /\ IsGetFor(lastStep, Undefined)
    /\ posted[1].point = Null
    /\ \E i \in Named(children, "MotionDirector_CP_Marker") :
         children[i].type = "TEXT"

====
